---------------------------- MODULE Spec2Model ----------------------------
(***************************************************************************)
(* A model of diu_sim (main.go): the supervisor `main`, the spawn loop     *)
(* `startSensorSimulations` and one `publishSensorData` goroutine per      *)
(* sensor, with time: each ticker and the supervisor's sleep count the     *)
(* clock units that pass.                                                  *)
(*                                                                         *)
(* Time is counted in clock units; `Second` is time.Second in those units. *)
(* Rates are multiples of 1/RateDen Hz, so that sub-hertz rates (a tick    *)
(* interval longer than the one second the supervisor sleeps) are in the   *)
(* model.  Steps of the program's own code take no time; time passes only  *)
(* while a goroutine is blocked on its ticker, inside client.Publish, on   *)
(* the signal channel or in time.Sleep.                                    *)
(***************************************************************************)
EXTENDS Integers, Sequences, FiniteSets

\* ------------------------------------------------------------------ bounds
MaxSensorID == 3   \* largest sensorID handed to publishSensorData directly
MaxRate     == 4   \* largest rate tried, in 1/RateDen Hz
RateDen     == 2   \* rates are multiples of 1/RateDen Hz
Second      == 3   \* time.Second, in clock units
MaxCount    == 2   \* ticks and attempts are counted up to this many

\* --------------------------------------------------------------- constants
\* main.go:27
channels == <<"temperature", "pressure", "humidity">>

Sensors == 0 .. MaxSensorID

\* The values tried for --num-sensors and for --min-rate / --max-rate
\* (parseArguments and the config-file override hand main any value): a
\* negative count, none, one sensor, two that run side by side; a negative
\* rate, zero, a rate below one hertz and the largest rate.
SensorCounts == {-1, 0, 1, 2}
RateChoices  == {-1, 0, 1, MaxRate}

\* A rate of more than one tick per clock unit (above 1e9 Hz in the program,
\* whose clock unit is the nanosecond): validation sets no upper limit.
HugeRate == Second * RateDen + 1

\* Every rate the model knows.
RateGrid == RateChoices \cup {HugeRate}

VARIABLES
    numSensors, minRate, maxRate,  \* the resolved parameters (main.go:133-147)
    staleTickKept,  \* the Go runtime keeps a buffered tick across Reset (Go < 1.23)
    mainPc,         \* where main (or the test that runs one publisher) is
    spawnI,         \* i of the loop in startSensorSimulations
    ctxDone,        \* ctx.Done() is closed: cancel() was called
    sinceCancel,    \* time slept in time.Sleep(time.Second) since cancel()
    pc,             \* per sensor: where its goroutine is
    channel,        \* per sensor: the local `channel`
    period,         \* per sensor: the ticker's current duration
    timeLeft,       \* per sensor: time until the ticker fires next
    tickBuf,        \* per sensor: a tick is buffered in ticker.C
    ticks,          \* per sensor: ticks received from ticker.C (up to MaxCount)
    attempts,       \* per sensor: calls of client.Publish (up to MaxCount)
    pubChannel,     \* per sensor: the channel of the last Publish call
    pubMessage,     \* per sensor: the message of the last Publish call
    callCtx,        \* per sensor: ctx was done when Publish was called
    result,         \* per sensor: the local `err` (what Publish returned), until the check
    wouldBe         \* per sensor: what the broker answered to that call

config   == <<numSensors, minRate, maxRate, staleTickKept>>
mainVars == <<mainPc, spawnI, ctxDone, sinceCancel>>
taskVars == <<pc, channel, period, timeLeft, tickBuf, ticks, attempts,
              pubChannel, pubMessage, callCtx, result, wouldBe>>
vars     == <<config, mainVars, taskVars>>

\* ------------------------------------------------------------ pure helpers
\* Mutant: the index is not reduced modulo len(channels) but clamped.
Channel_Clamped(sensorID) ==
    channels[IF sensorID < Len(channels) THEN sensorID + 1 ELSE Len(channels)]

\* main.go:62  channels[sensorID%len(channels)]  (Go indexes from 0)
Channel(sensorID) == channels[(sensorID % Len(channels)) + 1]

\* Texts are kept as the sequence of their pieces.
Digit(k) == <<"0", "1", "2", "3", "4", "5", "6", "7", "8", "9">>[k + 1]

\* fmt's %03d of a sensorID below 1000: three digits, zeros in front.
Pad3(n) == <<Digit((n \div 100) % 10), Digit((n \div 10) % 10), Digit(n % 10)>>

\* main.go:63  fmt.Sprintf("%s:sensor_%03d", channel, sensorID)
SensorName(ch, sensorID) == <<ch, ":", "sensor_">> \o Pad3(sensorID)

\* main.go:74  fmt.Sprintf("%s=%f", sensorName, value)
Message(sensorName, value) == sensorName \o <<"=", value>>

\* main.go:20-25  json.Marshal of a SensorData: an object with the four
\* tagged fields in the struct's order.
Marshal(d) ==
    <<"{", "sensor_id", d.sensor_id, "channel", d.channel,
      "timestamp", d.timestamp, "value", d.value, "}">>

\* main_test.go:90-91  json.Unmarshal(payload, &data): the SensorData of a
\* payload that is such an object, an error for any other text.
Unmarshal(payload) ==
    IF /\ Len(payload) = 10
       /\ payload[1] = "{" /\ payload[10] = "}"
       /\ payload[2] = "sensor_id" /\ payload[4] = "channel"
       /\ payload[6] = "timestamp" /\ payload[8] = "value"
    THEN [ok |-> TRUE,
          data |-> [sensor_id |-> payload[3], channel |-> payload[5],
                    timestamp |-> payload[7], value |-> payload[9]]]
    ELSE [ok |-> FALSE]

\* Mutant: the draw is r.Float64()*maxRate, with no lower limit.
DrawRate_NoLowerLimit(lo, hi) == {r \in RateGrid : 0 < r /\ r <= hi}

\* main.go:68,84  minRate + r.Float64()*(maxRate-minRate): any rate from
\* minRate to maxRate (rounding can return maxRate itself); the rates tried
\* are those of RateGrid.
DrawRate(lo, hi) == {r \in RateGrid : lo <= r /\ r <= hi}

\* Mutant: the quotient is rounded up to a whole number of clock units.
Interval_RoundUp(rate) == (Second * RateDen + rate - 1) \div rate

\* main.go:69,85  time.Duration(float64(time.Second) / rate): the quotient
\* truncated to a whole number of clock units.
Interval(rate) == (Second * RateDen) \div rate

\* Mutant: the check of minRate against maxRate (main.go:153) is missing.
RatesRejected_NoOrder(lo, hi) == lo <= 0 \/ hi <= 0

\* main.go:150-155  the two checks that end in log.Fatalf
RatesRejected(lo, hi) == lo <= 0 \/ hi <= 0 \/ lo > hi

\* The process runs: main has neither returned nor called log.Fatalf.
Alive == mainPc \in {"validate", "spawn", "await", "sleep", "test"}

\* The status the process has ended with: 0 when main returned, 1 after
\* log.Fatalf, 2 after a panic; -1 while it runs.
ExitStatus ==
    CASE mainPc = "exit" -> 0
      [] mainPc = "fatal" -> 1
      [] mainPc = "crashed" -> 2
      [] OTHER -> -1

\* Mutant: the deferred ticker.Stop() (main.go:70) is missing.
TickerRunning_NoStop(i) == pc[i] \in {"wait", "publish", "check", "stopped"}

\* The ticker of sensor i exists and was not stopped (main.go:69-70).
TickerRunning(i) == pc[i] \in {"wait", "publish", "check"}

\* A counter that stops at MaxCount.
Count(n) == IF n < MaxCount THEN n + 1 ELSE n

\* ------------------------------------------------------------------- Init
NoTasks ==
    /\ pc = [i \in Sensors |-> "unborn"]
    /\ channel = [i \in Sensors |-> ""]
    /\ period = [i \in Sensors |-> 0]
    /\ timeLeft = [i \in Sensors |-> 0]
    /\ tickBuf = [i \in Sensors |-> FALSE]
    /\ ticks = [i \in Sensors |-> 0]
    /\ attempts = [i \in Sensors |-> 0]
    /\ pubChannel = [i \in Sensors |-> ""]
    /\ pubMessage = [i \in Sensors |-> <<>>]
    /\ callCtx = [i \in Sensors |-> FALSE]
    /\ result = [i \in Sensors |-> "none"]
    /\ wouldBe = [i \in Sensors |-> "none"]

\* main.go:130-147  main starts with the resolved parameters.
Init ==
    /\ numSensors \in SensorCounts
    /\ minRate \in RateChoices
    /\ maxRate \in RateChoices
    /\ staleTickKept \in BOOLEAN
    /\ mainPc = "validate"
    /\ spawnI = 0
    /\ ctxDone = FALSE
    /\ sinceCancel = 0
    /\ NoTasks

\* ------------------------------------------------------------- supervisor
\* main.go:149-155  a rejected pair of rates ends the process in log.Fatalf.
Fatal ==
    /\ mainPc = "validate"
    /\ RatesRejected(minRate, maxRate)
    /\ mainPc' = "fatal"
    /\ UNCHANGED <<config, spawnI, ctxDone, sinceCancel, taskVars>>

\* Mutant: the spawn loop starts at i := 1.
Validated_FromOne ==
    /\ mainPc = "validate"
    /\ ~RatesRejected(minRate, maxRate)
    /\ mainPc' = "spawn"
    /\ spawnI' = 1
    /\ UNCHANGED <<config, ctxDone, sinceCancel, taskVars>>

\* main.go:149-162  the rates pass; ctx is created and the spawn loop entered.
Validated ==
    /\ mainPc = "validate"
    /\ ~RatesRejected(minRate, maxRate)
    /\ mainPc' = "spawn"
    /\ spawnI' = 0
    /\ UNCHANGED <<config, ctxDone, sinceCancel, taskVars>>

\* Mutant: the loop runs to i <= numSensors.
SpawnMore_OffByOne == spawnI <= numSensors

\* main.go:101  the loop condition i < numSensors
SpawnMore == spawnI < numSensors

\* main.go:101-102  one iteration: go publishSensorData(ctx, client, i, ...)
Spawn ==
    /\ mainPc = "spawn"
    /\ SpawnMore
    /\ pc' = [pc EXCEPT ![spawnI] = "start"]
    /\ spawnI' = spawnI + 1
    /\ UNCHANGED <<config, mainPc, ctxDone, sinceCancel, channel, period,
                   timeLeft, tickBuf, ticks, attempts, pubChannel,
                   pubMessage, callCtx,
                   result, wouldBe>>

\* main.go:101,164-167  the loop ends; main blocks on <-c.
SpawnDone ==
    /\ mainPc = "spawn"
    /\ ~SpawnMore
    /\ mainPc' = "await"
    /\ UNCHANGED <<config, spawnI, ctxDone, sinceCancel, taskVars>>

\* Mutant: cancel() is left to the deferred call (main.go:160) alone, which
\* runs when main returns.
StopRequest_DeferredOnly ==
    /\ mainPc = "await"
    /\ sinceCancel' = 0
    /\ mainPc' = "sleep"
    /\ UNCHANGED <<config, spawnI, ctxDone, taskVars>>

\* main.go:167-172  the interrupt arrives: cancel(), then time.Sleep(time.Second).
StopRequest ==
    /\ mainPc = "await"
    /\ ctxDone' = TRUE
    /\ sinceCancel' = 0
    /\ mainPc' = "sleep"
    /\ UNCHANGED <<config, spawnI, taskVars>>

\* Mutant: main waits for every publisher to stop (a WaitGroup).
SleepOver_Barrier ==
    sinceCancel >= Second /\ \A i \in Sensors : pc[i] \in {"unborn", "stopped"}

\* main.go:172  time.Sleep(time.Second) returns once the second has passed,
\* whatever the goroutines are doing.
SleepOver == sinceCancel >= Second

\* main.go:172-174  main returns: the process exits with every goroutine.
MainReturn ==
    /\ mainPc = "sleep"
    /\ SleepOver
    /\ mainPc' = "exit"
    /\ UNCHANGED <<config, spawnI, ctxDone, sinceCancel, taskVars>>
\* ------------------------------------------------------ publishSensorData
\* time.NewTicker and ticker.Reset accept a positive duration only; they
\* panic on any other ("non-positive interval for NewTicker").
TickerAccepts(d) == d > 0

\* Mutant: Publish gives up on ctx's deadline whatever the state of ctx.
PublishResults_AlwaysErr(b, doneAtCall, doneAtReturn) == {"err"}

\* main.go:76  client.Publish(ctx, ...) is handed ctx: a call made with ctx
\* already done returns ctx's error without reaching the broker; a call that
\* is under way when ctx is cancelled returns the broker's answer or ctx's
\* error; otherwise it returns the broker's answer b.
PublishResults(b, doneAtCall, doneAtReturn) ==
    IF doneAtCall THEN {"err"}
    ELSE IF doneAtReturn THEN {b, "err"}
    ELSE {b}

\* main.go:61-70  the goroutine starts: channel, the first rate, the ticker.
StartTask(i) ==
    /\ Alive
    /\ pc[i] = "start"
    /\ \E rate \in DrawRate(minRate, maxRate) :
          /\ TickerAccepts(Interval(rate))
          /\ period' = [period EXCEPT ![i] = Interval(rate)]
          /\ timeLeft' = [timeLeft EXCEPT ![i] = Interval(rate)]
    /\ channel' = [channel EXCEPT ![i] = Channel(i)]
    /\ pc' = [pc EXCEPT ![i] = "wait"]
    /\ UNCHANGED <<config, mainVars, tickBuf, ticks, attempts,
                   pubChannel, pubMessage, callCtx, result, wouldBe>>

\* main.go:61-69  the first interval is not positive: time.NewTicker panics
\* in the goroutine, which ends the whole process.
NewTickerPanic(i) ==
    /\ Alive
    /\ pc[i] = "start"
    /\ \E rate \in DrawRate(minRate, maxRate) :
          /\ ~TickerAccepts(Interval(rate))
          /\ period' = [period EXCEPT ![i] = Interval(rate)]
    /\ channel' = [channel EXCEPT ![i] = Channel(i)]
    /\ pc' = [pc EXCEPT ![i] = "panicked"]
    /\ mainPc' = "crashed"
    /\ UNCHANGED <<config, spawnI, ctxDone, sinceCancel, timeLeft, tickBuf,
                   ticks, attempts, pubChannel,
                   pubMessage, callCtx, result, wouldBe>>

\* The runtime's ticker fires: a tick is put in ticker.C (capacity 1; a tick
\* that finds the buffer full is dropped) and the next one is due a period on.
TimerFire(i) ==
    /\ Alive
    /\ TickerRunning(i)
    /\ timeLeft[i] = 0
    /\ tickBuf' = [tickBuf EXCEPT ![i] = TRUE]
    /\ timeLeft' = [timeLeft EXCEPT ![i] = period[i]]
    /\ UNCHANGED <<config, mainVars, pc, channel, period, ticks, attempts,
                   pubChannel, pubMessage, callCtx, result, wouldBe>>

\* Mutant: the shared client serves one Publish at a time, and a publisher
\* waits for it before taking its tick.
CanReceive_OneAtATime(i) ==
    pc[i] = "wait" /\ tickBuf[i] /\ \A j \in Sensors : pc[j] # "publish"

\* The goroutine may take a tick from ticker.C (main.go:72).
CanReceive(i) == pc[i] = "wait" /\ tickBuf[i]

\* Mutant: the loop waits in a select on ticker.C and ctx.Done(), and
\* returns from there once ctx is done.
Receive_SelectOnDone(i) ==
    /\ Alive
    /\ pc[i] = "wait"
    /\ IF ctxDone
       THEN /\ pc' = [pc EXCEPT ![i] = "stopped"]
            /\ period' = [period EXCEPT ![i] = 0]
            /\ timeLeft' = [timeLeft EXCEPT ![i] = 0]
            /\ tickBuf' = [tickBuf EXCEPT ![i] = FALSE]
            /\ UNCHANGED <<ticks, attempts, pubChannel, pubMessage, callCtx>>
       ELSE /\ tickBuf[i]
            /\ tickBuf' = [tickBuf EXCEPT ![i] = FALSE]
            /\ ticks' = [ticks EXCEPT ![i] = Count(@)]
            /\ attempts' = [attempts EXCEPT ![i] = Count(@)]
            /\ pubChannel' = [pubChannel EXCEPT ![i] = channel[i]]
            /\ pubMessage' = [pubMessage EXCEPT ![i] =
                                Message(SensorName(channel[i], i), "value")]
            /\ callCtx' = [callCtx EXCEPT ![i] = ctxDone]
            /\ pc' = [pc EXCEPT ![i] = "publish"]
            /\ UNCHANGED <<period, timeLeft>>
    /\ UNCHANGED <<config, mainVars, channel, result, wouldBe>>

\* main.go:72-76  a tick is received, the message built, Publish called.
Receive(i) ==
    /\ Alive
    /\ CanReceive(i)
    /\ tickBuf' = [tickBuf EXCEPT ![i] = FALSE]
    /\ ticks' = [ticks EXCEPT ![i] = Count(@)]
    /\ attempts' = [attempts EXCEPT ![i] = Count(@)]
    /\ pubChannel' = [pubChannel EXCEPT ![i] = channel[i]]
    /\ pubMessage' = [pubMessage EXCEPT ![i] =
                        Message(SensorName(channel[i], i), "value")]
    /\ callCtx' = [callCtx EXCEPT ![i] = ctxDone]
    /\ pc' = [pc EXCEPT ![i] = "publish"]
    /\ UNCHANGED <<config, mainVars, channel, period, timeLeft,
                   result, wouldBe>>

\* Mutant: a publish error ends the loop.
AfterPublish_ReturnOnError(res) == IF res = "err" THEN "stopped" ELSE "check"

\* main.go:77-81  err != nil or not, the outcome is only logged and the
\* loop body goes on to the rearm and the check.
AfterPublish(res) == "check"

\* main.go:76-86  Publish returns, the outcome is logged, the next rate is
\* drawn and the ticker reset to it.
PublishReturn(i) ==
    /\ Alive
    /\ pc[i] = "publish"
    /\ \E b \in {"ok", "err"} :
          /\ wouldBe' = [wouldBe EXCEPT ![i] = b]
          /\ \E res \in PublishResults(b, callCtx[i], ctxDone) :
                /\ result' = [result EXCEPT ![i] = res]
                /\ pc' = [pc EXCEPT ![i] = AfterPublish(res)]
    /\ \E rate \in DrawRate(minRate, maxRate) :
          /\ TickerAccepts(Interval(rate))
          /\ period' = [period EXCEPT ![i] = Interval(rate)]
          /\ timeLeft' = [timeLeft EXCEPT ![i] = Interval(rate)]
    /\ tickBuf' = [tickBuf EXCEPT ![i] = staleTickKept /\ tickBuf[i]]
    /\ UNCHANGED <<config, mainVars, channel, ticks, attempts,
                   pubChannel, pubMessage, callCtx>>

\* main.go:76-86  Publish returns, and the interval drawn next is not
\* positive: ticker.Reset panics, which ends the whole process.
ResetPanic(i) ==
    /\ Alive
    /\ pc[i] = "publish"
    /\ \E b \in {"ok", "err"} :
          /\ wouldBe' = [wouldBe EXCEPT ![i] = b]
          /\ \E res \in PublishResults(b, callCtx[i], ctxDone) :
                result' = [result EXCEPT ![i] = res]
    /\ \E rate \in DrawRate(minRate, maxRate) :
          /\ ~TickerAccepts(Interval(rate))
          /\ period' = [period EXCEPT ![i] = Interval(rate)]
    /\ pc' = [pc EXCEPT ![i] = "panicked"]
    /\ mainPc' = "crashed"
    /\ UNCHANGED <<config, spawnI, ctxDone, sinceCancel, channel, timeLeft,
                   tickBuf, ticks, attempts, pubChannel, pubMessage, callCtx>>

\* Mutant: the select on ctx.Done() (main.go:89-94) never returns.
AfterCheck_NoReturn(done) == "wait"

\* main.go:88-94  what the select on ctx.Done() leads to.
AfterCheck(done) == IF done THEN "stopped" ELSE "wait"

\* main.go:88-95,70  the select, which ends the loop body: its locals (err)
\* are gone; on return the deferred ticker.Stop() runs and the ticker is no more.
CheckCancel(i) ==
    /\ Alive
    /\ pc[i] = "check"
    /\ pc' = [pc EXCEPT ![i] = AfterCheck(ctxDone)]
    /\ result' = [result EXCEPT ![i] = "none"]
    /\ wouldBe' = [wouldBe EXCEPT ![i] = "none"]
    /\ callCtx' = [callCtx EXCEPT ![i] = FALSE]
    /\ IF AfterCheck(ctxDone) = "stopped"
       THEN /\ period' = [period EXCEPT ![i] = 0]
            /\ timeLeft' = [timeLeft EXCEPT ![i] = 0]
            /\ tickBuf' = [tickBuf EXCEPT ![i] = FALSE]
       ELSE UNCHANGED <<period, timeLeft, tickBuf>>
    /\ UNCHANGED <<config, mainVars, channel, ticks, attempts, pubChannel,
                   pubMessage>>

\* ------------------------------------------------------------------ clock
\* Sensor i's goroutine, or its ticker, has a step to take at this instant.
Urgent(i) ==
    \/ pc[i] \in {"start", "check"}
    \/ CanReceive(i)
    \/ TickerRunning(i) /\ timeLeft[i] = 0

\* One clock unit passes, when no step of the program is due at this
\* instant: every running ticker and the supervisor's sleep move on by one.
Advance ==
    /\ mainPc \in {"await", "sleep", "test"}
    /\ mainPc = "sleep" => ~SleepOver
    /\ \A i \in Sensors : ~Urgent(i)
    /\ timeLeft' = [i \in Sensors |->
                      IF TickerRunning(i) THEN timeLeft[i] - 1 ELSE timeLeft[i]]
    /\ sinceCancel' = IF mainPc = "sleep" THEN sinceCancel + 1 ELSE sinceCancel
    /\ UNCHANGED <<config, mainPc, spawnI, ctxDone, pc, channel, period, tickBuf,
                   ticks, attempts, pubChannel,
                   pubMessage, callCtx, result, wouldBe>>

Next ==
    \/ Fatal
    \/ Validated
    \/ Spawn
    \/ SpawnDone
    \/ StopRequest
    \/ MainReturn
    \/ Advance
    \/ \E i \in Sensors : StartTask(i)
    \/ \E i \in Sensors : TimerFire(i)
    \/ \E i \in Sensors : Receive(i)
    \/ \E i \in Sensors : PublishReturn(i)
    \/ \E i \in Sensors : CheckCancel(i)

Spec == Init /\ [][Next]_vars

\* main_test.go:66-74  TestPublishSensorData runs one publisher by itself:
\* go publishSensorData(ctx, client, sensorID, minRate, maxRate) with
\* ctx = context.Background(), which is never cancelled, and accepted rates.
InitTask ==
    /\ numSensors = 1
    /\ minRate \in RateChoices
    /\ maxRate \in RateChoices
    /\ ~RatesRejected(minRate, maxRate)
    /\ staleTickKept \in BOOLEAN
    /\ mainPc = "test"
    /\ spawnI = 0
    /\ ctxDone = FALSE
    /\ sinceCancel = 0
    /\ \E sensorID \in Sensors :
          pc = [i \in Sensors |-> IF i = sensorID THEN "start" ELSE "unborn"]
    /\ channel = [i \in Sensors |-> ""]
    /\ period = [i \in Sensors |-> 0]
    /\ timeLeft = [i \in Sensors |-> 0]
    /\ tickBuf = [i \in Sensors |-> FALSE]
    /\ ticks = [i \in Sensors |-> 0]
    /\ attempts = [i \in Sensors |-> 0]
    /\ pubChannel = [i \in Sensors |-> ""]
    /\ pubMessage = [i \in Sensors |-> <<>>]
    /\ callCtx = [i \in Sensors |-> FALSE]
    /\ result = [i \in Sensors |-> "none"]
    /\ wouldBe = [i \in Sensors |-> "none"]

NextTask ==
    \/ Advance
    \/ \E i \in Sensors : StartTask(i)
    \/ \E i \in Sensors : TimerFire(i)
    \/ \E i \in Sensors : Receive(i)
    \/ \E i \in Sensors : PublishReturn(i)
    \/ \E i \in Sensors : CheckCancel(i)

SpecTask == InitTask /\ [][NextTask]_vars

\* The same with the scheduling the Go runtime provides: time passes, a due
\* ticker fires, a runnable goroutine runs, and (the broker answering) a
\* Publish under way returns.
SpecTaskLive ==
    /\ InitTask
    /\ [][NextTask]_vars
    /\ WF_vars(Advance)
    /\ \A i \in Sensors :
          /\ WF_vars(StartTask(i))
          /\ WF_vars(TimerFire(i))
          /\ WF_vars(Receive(i))
          /\ WF_vars(PublishReturn(i))
          /\ WF_vars(CheckCancel(i))

\* One publisher by itself as in TestPublishSensorData, with any pair of
\* rates that main's validation (main.go:150-155) lets through, the rates
\* above one tick per clock unit among them.
InitRate ==
    /\ numSensors = 1
    /\ minRate \in RateGrid
    /\ maxRate \in RateGrid
    /\ ~RatesRejected(minRate, maxRate)
    /\ staleTickKept \in BOOLEAN
    /\ mainPc = "test"
    /\ spawnI = 0
    /\ ctxDone = FALSE
    /\ sinceCancel = 0
    /\ \E sensorID \in Sensors :
          pc = [i \in Sensors |-> IF i = sensorID THEN "start" ELSE "unborn"]
    /\ channel = [i \in Sensors |-> ""]
    /\ period = [i \in Sensors |-> 0]
    /\ timeLeft = [i \in Sensors |-> 0]
    /\ tickBuf = [i \in Sensors |-> FALSE]
    /\ ticks = [i \in Sensors |-> 0]
    /\ attempts = [i \in Sensors |-> 0]
    /\ pubChannel = [i \in Sensors |-> ""]
    /\ pubMessage = [i \in Sensors |-> <<>>]
    /\ callCtx = [i \in Sensors |-> FALSE]
    /\ result = [i \in Sensors |-> "none"]
    /\ wouldBe = [i \in Sensors |-> "none"]

NextRate ==
    \/ Advance
    \/ \E i \in Sensors : StartTask(i)
    \/ \E i \in Sensors : NewTickerPanic(i)
    \/ \E i \in Sensors : TimerFire(i)
    \/ \E i \in Sensors : Receive(i)
    \/ \E i \in Sensors : PublishReturn(i)
    \/ \E i \in Sensors : ResetPanic(i)
    \/ \E i \in Sensors : CheckCancel(i)

SpecRate == InitRate /\ [][NextRate]_vars

TypeOK ==
    /\ mainPc \in {"validate", "fatal", "spawn", "await", "sleep", "exit", "test",
                  "crashed"}
    /\ sinceCancel \in 0 .. Second
    /\ \A i \in Sensors :
          /\ pc[i] \in {"unborn", "start", "wait", "publish", "check", "stopped",
                       "panicked"}
          /\ TickerRunning(i) => timeLeft[i] \in 0 .. period[i]

\* ------------------------------------------------------------------ claims
\* Sensor i's goroutine was spawned.
Spawned(i) == pc[i] # "unborn"

\* C1 as stated: once cancel() was called, every spawned publisher reaches
\* Stopped within one tick duration plus the grace period.  The process ends
\* when main returns, a grace period after cancel(): a publisher that has not
\* returned by then never does, so by the end of the process every spawned
\* publisher must have stopped.
C1_StoppedWithinGrace ==
    \A i \in Sensors : (Spawned(i) /\ mainPc = "exit") => pc[i] = "stopped"

\* C1 amended: while the supervisor sleeps after cancel(), a publisher whose
\* tick duration has passed since cancel() is stopped, or is inside the
\* publish attempt of its last tick, or at the check that stops it.
C1_LastTickWithinPeriod ==
    \A i \in Sensors :
        (Spawned(i) /\ mainPc = "sleep" /\ sinceCancel > period[i])
            => pc[i] \in {"publish", "check", "stopped"}

\* C1 witness: more than its tick duration after cancel() one publisher is
\* inside the publish attempt of its last tick, and another has stopped.
C1_Witness ==
    \E i, j \in Sensors :
        /\ mainPc = "sleep"
        /\ pc[i] = "publish" /\ callCtx[i] /\ sinceCancel > period[i]
        /\ pc[j] = "stopped"

\* C2: Stopped is terminal: a stopped publisher stays stopped, calls Publish
\* no more, receives no tick, and its ticker puts no tick in ticker.C.
C2_StoppedIsTerminal ==
    [][\A i \in Sensors :
          pc[i] = "stopped" =>
              /\ pc'[i] = "stopped"
              /\ attempts'[i] = attempts[i]
              /\ ticks'[i] = ticks[i]
              /\ tickBuf'[i] = tickBuf[i]
              /\ timeLeft'[i] = timeLeft[i]
              /\ pubChannel'[i] = pubChannel[i]
              /\ result'[i] = result[i]]_vars

\* C2 witness: a publisher is stopped while the clock has moved on since
\* cancel() and another publisher is still running.
C2_Witness ==
    \E i, j \in Sensors :
        /\ pc[i] = "stopped"
        /\ pc[j] \in {"wait", "publish"}
        /\ mainPc = "sleep"
        /\ sinceCancel > 0

C4_BadRatesRejected ==
    (minRate <= 0 \/ maxRate <= 0 \/ minRate > maxRate) =>
        /\ mainPc \in {"validate", "fatal"}
        /\ spawnI = 0
        /\ \A i \in Sensors : ~Spawned(i) /\ attempts[i] = 0

\* C4 witness: minRate = 0 with an acceptable maxRate ended in the fatal error.
C4_Witness == mainPc = "fatal" /\ minRate = 0 /\ maxRate > 0

\* C5 as stated: a negative sensorCount is a fatal configuration error: main
\* gets neither to the spawn loop nor to waiting for the stop request.
C5_NegativeCountRejected ==
    numSensors < 0 => mainPc \in {"validate", "fatal"}

\* C6: a publish error changes nothing in the publisher's course: whatever
\* Publish returned, the publisher rearms its ticker with a freshly drawn
\* interval and goes to the check without a second attempt; it leaves the
\* loop there exactly when ctx is done; every tick received makes exactly one
\* publish attempt.
C6_ErrorKeepsRunning ==
    /\ [](\A i \in Sensors : ticks[i] = attempts[i])
    /\ [][\A i \in Sensors :
            /\ (pc[i] = "publish" /\ pc'[i] # "publish") =>
                  /\ pc'[i] = "check"
                  /\ attempts'[i] = attempts[i]
                  /\ \E rate \in RateChoices :
                        /\ minRate <= rate /\ rate <= maxRate
                        /\ period'[i] = (Second * RateDen) \div rate
                  /\ timeLeft'[i] = period'[i]
            /\ (pc[i] = "check" /\ pc'[i] # "check") =>
                  /\ (ctxDone => pc'[i] = "stopped")
                  /\ (~ctxDone => pc'[i] = "wait")
                  /\ attempts'[i] = attempts[i]]_vars

\* C6 witness: a publisher's second attempt failed with ctx not done: the
\* ticker is rearmed with the new interval and the publisher is at the check.
C6_Witness ==
    \E i \in Sensors :
        /\ pc[i] = "check" /\ result[i] = "err" /\ wouldBe[i] = "err"
        /\ attempts[i] >= 2 /\ ~ctxDone
        /\ period[i] > 0 /\ timeLeft[i] = period[i]

\* What sensor j's goroutine and ticker hold, but for the time left.
TaskState(j) ==
    <<pc[j], channel[j], period[j], tickBuf[j], ticks[j], attempts[j],
      pubChannel[j], pubMessage[j], callCtx[j], result[j], wouldBe[j]>>

\* C7: publishers are isolated: a step of sensor i's goroutine or ticker (a
\* publish error among them) changes nothing of another sensor j, of ctx or
\* of main; and whatever the others are doing (inside a Publish that does not
\* return, say) a publisher with a tick in ticker.C can receive it, one
\* inside Publish can return from it and one at the check can take it.
C7_Isolated ==
    /\ [](\A j \in Sensors :
            Alive =>
                /\ (pc[j] = "wait" /\ tickBuf[j]) => ENABLED Receive(j)
                /\ pc[j] = "publish" => ENABLED PublishReturn(j)
                /\ pc[j] = "check" => ENABLED CheckCancel(j)
                /\ (pc[j] \in {"wait", "publish", "check"} /\ timeLeft[j] = 0)
                       => ENABLED TimerFire(j))
    /\ [][\A i \in Sensors :
            (Spawned(i) /\ TaskState(i)' # TaskState(i)) =>
                /\ \A j \in Sensors \ {i} :
                      TaskState(j)' = TaskState(j) /\ timeLeft'[j] = timeLeft[j]
                /\ ctxDone' = ctxDone
                /\ mainPc' = mainPc]_vars

\* C7 witness: sensor i is inside a Publish that began before cancel() and
\* has not returned, while sensor j has published since, failed once, and
\* has observed the cancellation.
C7_Witness ==
    \E i, j \in Sensors :
        /\ pc[i] = "publish" /\ ~callCtx[i]
        /\ pc[j] = "stopped" /\ attempts[j] >= 2

\* C8: on the stop request main calls cancel() and sleeps the grace period,
\* then returns, whatever the publishers are doing: the return is enabled as
\* soon as the grace period has passed and the clock does not pass it.
C8_ReturnsAfterGrace ==
    /\ [](mainPc = "sleep" =>
            /\ ctxDone
            /\ sinceCancel <= Second
            /\ sinceCancel = Second => ENABLED MainReturn)
    /\ [][/\ (mainPc = "await" /\ mainPc' # "await") =>
                (mainPc' = "sleep" /\ ctxDone' /\ sinceCancel' = 0)
          /\ (mainPc = "sleep" /\ mainPc' # "sleep") =>
                (mainPc' = "exit" /\ sinceCancel = Second)]_vars

\* C8 witness: main has returned while one publisher is inside Publish and
\* another waits for a tick that lies beyond the grace period.
C8_Witness ==
    \E i, j \in Sensors :
        /\ mainPc = "exit"
        /\ pc[i] = "publish"
        /\ pc[j] = "wait" /\ timeLeft[j] > 0

\* C9: with sensorCount = 0 and accepted rates main does not end in the fatal
\* error, no publisher is ever spawned, no publish attempt is made, and main
\* returns only when the grace period after the stop request has passed.
C9_NoSensors ==
    (numSensors = 0 /\ minRate > 0 /\ maxRate > 0 /\ minRate <= maxRate) =>
        /\ mainPc # "fatal"
        /\ \A i \in Sensors : ~Spawned(i) /\ attempts[i] = 0 /\ ticks[i] = 0
        /\ mainPc = "exit" => (ctxDone /\ sinceCancel = Second)
        /\ mainPc = "sleep" => ctxDone

\* C9 witness: with no sensors, main has returned after the stop request.
C9_Witness == numSensors = 0 /\ mainPc = "exit"

\* C10: every call of Publish by sensor i's publisher is on the channel
\* fixedKindList[i mod 3], and a publisher's channel never changes.
C10_ChannelByIndex ==
    /\ [](\A i \in Sensors :
            LET kind == <<"temperature", "pressure", "humidity">>[(i % 3) + 1]
            IN  /\ pc[i] \in {"wait", "publish", "check", "stopped"}
                       => channel[i] = kind
                /\ attempts[i] > 0 => pubChannel[i] = kind)
    /\ [][\A i \in Sensors :
            /\ channel[i] # "" => channel'[i] = channel[i]
            /\ pubChannel[i] # "" => pubChannel'[i] = pubChannel[i]]_vars

\* C10 witness: a sensor whose index is 3 or more has published twice.
C10_Witness ==
    \E i \in Sensors : i >= 3 /\ attempts[i] >= 2 /\ pc[i] = "publish"

\* C11 as stated: every interval a publisher's ticker is given lies between
\* 1/maxRate and 1/minRate seconds.
C11_IntervalInRange ==
    \A i \in Sensors :
        TickerRunning(i) =>
            /\ period[i] * maxRate >= Second * RateDen
            /\ period[i] * minRate <= Second * RateDen

\* C11 amended: every interval a publisher's ticker is given is at most
\* 1/minRate seconds and more than 1/maxRate seconds less one clock unit:
\* the conversion to a duration drops the fraction of a clock unit.
C11_IntervalTruncated ==
    \A i \in Sensors :
        TickerRunning(i) =>
            /\ (period[i] + 1) * maxRate > Second * RateDen
            /\ period[i] * minRate <= Second * RateDen

\* C11 witness: a ticker was rearmed after its second tick with an interval
\* that the conversion made shorter than 1/maxRate seconds.
C11_Witness ==
    \E i \in Sensors :
        /\ pc[i] = "check" /\ attempts[i] >= 2
        /\ period[i] * maxRate < Second * RateDen

\* C12: a publisher that is not cancelled eventually publishes, within a
\* bounded time: until its first attempt it waits for the first tick, which
\* is due no later than 1/minRate seconds after the ticker was made, and the
\* clock does not pass a due tick or a buffered one; and, every publish
\* attempt succeeding, a started publisher gets to a returned, successful
\* Publish on channels[i mod 3].
C12_EventuallyPublishes ==
    /\ [](\A i \in Sensors :
            (TickerRunning(i) /\ attempts[i] = 0) =>
                /\ pc[i] = "wait"
                /\ timeLeft[i] <= period[i]
                /\ period[i] * minRate <= Second * RateDen
                /\ timeLeft[i] = 0 => ~ENABLED Advance
                /\ tickBuf[i] => (ENABLED Receive(i) /\ ~ENABLED Advance))
    /\ [](\A i \in Sensors : pc[i] = "check" => wouldBe[i] = "ok")
          => \A i \in Sensors :
                pc[i] = "start"
                    ~> (/\ pc[i] = "check"
                        /\ result[i] = "ok"
                        /\ pubChannel[i] = channels[(i % 3) + 1])

\* C12 witness: a publisher's first Publish has returned successfully.
C12_Witness ==
    \E i \in Sensors :
        /\ pc[i] = "check" /\ attempts[i] = 1
        /\ result[i] = "ok" /\ ~ctxDone

\* C13 as stated: every message sensor i's publisher publishes is the JSON
\* encoding of a SensorData whose sensor_id is sensor_%03d of i and whose
\* channel is channels[i mod 3].
C13_MessageIsSensorData ==
    \A i \in Sensors :
        attempts[i] > 0 =>
            LET u == Unmarshal(pubMessage[i])
            IN  /\ u.ok
                /\ u.data.sensor_id = <<"sensor_">> \o Pad3(i)
                /\ u.data.channel = channels[(i % 3) + 1]

\* C14 as stated: the process ends with status zero only after a clean
\* shutdown (the stop request came and ctx was cancelled before the exit); a
\* configuration error (rejected rates, a negative sensor count) never ends
\* with status zero; and a publish error does not end the process.
C14_ZeroOnlyAfterCleanShutdown ==
    /\ [](ExitStatus = 0 => (ctxDone /\ sinceCancel = Second))
    /\ []((numSensors < 0 \/ minRate <= 0 \/ maxRate <= 0 \/ minRate > maxRate)
             => ExitStatus # 0)
    /\ [][(\E i \in Sensors : result'[i] = "err" /\ result[i] # "err")
             => mainPc' = mainPc]_vars

\* C15: ctx is one write-once signal: main has created it before any
\* publisher is spawned; it is not done in any state before the stop
\* request; the stop request sets it, once (main waits for the stop request
\* once and never again); and once done it stays done, to the end.
C15_SignalWriteOnce ==
    /\ [](\A i \in Sensors :
            Spawned(i) => mainPc \in {"spawn", "await", "sleep", "exit"})
    /\ [](mainPc \in {"validate", "fatal", "spawn", "await"} => ~ctxDone)
    /\ [](mainPc \in {"sleep", "exit"} => ctxDone)
    /\ [][/\ ctxDone => ctxDone'
          /\ ctxDone' # ctxDone => (mainPc = "await" /\ mainPc' = "sleep")
          /\ mainPc \in {"sleep", "exit"} => mainPc' \in {"sleep", "exit"}]_vars

\* C15 witness: main has returned with ctx done, after a publisher had
\* observed it and another had not.
C15_Witness ==
    \E i, j \in Sensors :
        /\ mainPc = "exit" /\ ctxDone
        /\ pc[i] = "stopped" /\ pc[j] = "wait"

\* C16: a publisher stops only by observing ctx done: a stopped publisher
\* implies ctx is done; a publisher with a ticker gives it up only at the
\* check, with ctx done, by stopping; and while ctx is not done no step (a
\* Publish that returns an error, a step of another publisher, of the clock
\* or of main) ends a publisher's loop.
C16_StoppedOnlyBySignal ==
    /\ [](\A i \in Sensors : pc[i] = "stopped" => ctxDone)
    /\ [][\A i \in Sensors :
            /\ (TickerRunning(i) /\ pc'[i] \notin {"wait", "publish", "check"})
                  => (pc[i] = "check" /\ ctxDone /\ pc'[i] = "stopped")
            /\ (TickerRunning(i) /\ ~ctxDone)
                  => pc'[i] \in {"wait", "publish", "check"}]_vars

\* C16 witness: one publisher has stopped on ctx done while another is at the
\* check after a Publish, begun before cancel(), that the broker failed.
C16_Witness ==
    \E i, j \in Sensors :
        /\ pc[i] = "stopped" /\ ctxDone
        /\ pc[j] = "check" /\ ~callCtx[j]
        /\ result[j] = "err" /\ wouldBe[j] = "err"

\* C17 as stated: ticks are never skipped or batched, and the interval drawn
\* at the rearm is kept, also when a Publish outlasts the current interval:
\* a timer expiry finds ticker.C empty (a tick that finds it full is
\* dropped); a tick leaves ticker.C of a running publisher only by being
\* received, which makes the one publish attempt; and a publisher that comes
\* back from the check to wait for the ticker, no time having passed since
\* the rearm, finds no tick waiting (it would be received at once).
C17_NoTickSkippedOrEarly ==
    [][\A i \in Sensors :
          /\ (TickerRunning(i) /\ timeLeft[i] = 0 /\ timeLeft'[i] = period[i]
                  /\ pc'[i] = pc[i] /\ tickBuf'[i])
                => ~tickBuf[i]
          /\ (tickBuf[i] /\ ~tickBuf'[i] /\ pc'[i] # "stopped")
                => (pc[i] = "wait" /\ pc'[i] = "publish"
                    /\ attempts'[i] = Count(attempts[i]))
          /\ (pc[i] = "check" /\ pc'[i] = "wait") => ~tickBuf'[i]]_vars

\* C18: with valid parameters (sensorCount >= 0, accepted rates) main spawns
\* exactly sensorCount publishers, those of the indices 0 .. sensorCount-1:
\* in the spawn loop the indices below i are spawned and no other; after it
\* the spawned are exactly 0 .. sensorCount-1; a publisher is spawned only by
\* the loop, for the loop's current index, before the stop request, and is
\* never started again; and every publisher's check reads the one ctx.
C18_OneTaskPerIndex ==
    /\ []((numSensors >= 0 /\ ~RatesRejected(minRate, maxRate)) =>
            /\ mainPc = "spawn" =>
                  /\ spawnI <= numSensors
                  /\ {i \in Sensors : Spawned(i)} = 0 .. (spawnI - 1)
            /\ mainPc \in {"await", "sleep", "exit"} =>
                  {i \in Sensors : Spawned(i)} = 0 .. (numSensors - 1))
    /\ [][\A i \in Sensors :
            /\ (~Spawned(i) /\ Spawned(i)') =>
                  /\ mainPc = "spawn" /\ i = spawnI /\ spawnI' = i + 1
                  /\ ~ctxDone /\ pc'[i] = "start"
            /\ Spawned(i) => Spawned(i)'
            /\ (Spawned(i) /\ pc[i] # "start") => pc'[i] # "start"
            /\ (pc[i] = "check" /\ pc'[i] # "check") =>
                  (pc'[i] = "stopped" <=> ctxDone)]_vars

\* C18 witness: two sensors were asked for; after the stop request the
\* publishers 0 and 1 exist, one of them stopped, and no other.
C18_Witness ==
    /\ numSensors = 2 /\ mainPc = "sleep" /\ ctxDone
    /\ pc[0] = "stopped" /\ pc[1] \in {"wait", "publish"}
    /\ \A i \in Sensors : i >= 2 => ~Spawned(i)

\* C19: after cancel() a publisher starts at most one more publish attempt
\* before it stops: an attempt is marked as begun with ctx done exactly when
\* it was; a publisher so marked is inside that attempt or at the check after
\* it, and its only way on is from the attempt to the check and from the
\* check to stopped.  And the loop does not look at ctx while it waits for
\* the ticker: a waiting publisher leaves waiting only by receiving a tick,
\* and one cancelled before its first tick can receive it when it comes.
C19_OneLateAttempt ==
    /\ [](\A i \in Sensors :
            /\ callCtx[i] => (ctxDone /\ pc[i] \in {"publish", "check"})
            /\ (Alive /\ ctxDone /\ pc[i] = "wait" /\ tickBuf[i])
                  => ENABLED Receive(i))
    /\ [][\A i \in Sensors :
            /\ (pc[i] # "publish" /\ pc'[i] = "publish")
                  => (pc[i] = "wait" /\ callCtx'[i] = ctxDone)
            /\ (callCtx[i] /\ pc'[i] # pc[i])
                  => \/ pc[i] = "publish" /\ pc'[i] = "check" /\ callCtx'[i]
                     \/ pc[i] = "check" /\ pc'[i] = "stopped"
            /\ pc[i] = "wait" => pc'[i] \in {"wait", "publish"}
            /\ pc[i] = "stopped" => pc'[i] = "stopped"]_vars

\* C19 witness: a publisher cancelled before its first tick has made its one
\* attempt, which has returned, and is at the check that stops it.
C19_Witness ==
    \E i \in Sensors :
        /\ pc[i] = "check" /\ callCtx[i] /\ ctxDone
        /\ attempts[i] = 1 /\ ticks[i] = 1

\* C20 as stated: with rates that pass main's validation every interval
\* handed to time.NewTicker or ticker.Reset is positive, and no publisher
\* aborts on one that is not.
C20_IntervalsPositive ==
    ~RatesRejected(minRate, maxRate) =>
        \A i \in Sensors :
            pc[i] \in {"wait", "publish", "check", "panicked"} =>
                (period[i] > 0 /\ pc[i] # "panicked")

=============================================================================
